---- MODULE Spec2Model ----
(***************************************************************************)
(* A model of chng.py, the changelog generator: the configuration file     *)
(* (~/.apikey), the endpoint resolution of get_api_url, the completion     *)
(* request and the changelog file written by process_file.                 *)
(*                                                                         *)
(* Python strings are sequences of one-character strings, so that strip,   *)
(* split, join, substring search and the JSON text of the configuration    *)
(* file are computed character by character.                               *)
(***************************************************************************)
EXTENDS Integers, Sequences, FiniteSets, TLC

(***************************************************************************)
(* Bounds of the model.                                                    *)
(***************************************************************************)
MaxUrlLen == 6
MaxPortLen == 1
MaxDiffLen == 1
MaxRespLen == 2
MaxAnswerLen == 2

(***************************************************************************)
(* Python values: None and str.                                            *)
(***************************************************************************)
Nothing == [kind |-> "None", val |-> <<>>]

Just(s) == [kind |-> "str", val |-> s]

\* Python truthiness of an optional string: None and '' are falsy.
Truthy(x) == x.kind = "str" /\ x.val /= <<>>

\* All sequences over alphabet of length at most n.
SeqsUpTo(alphabet, n) == UNION {[1..k -> alphabet] : k \in 0..n}

(***************************************************************************)
(* str methods used by the program.                                        *)
(***************************************************************************)
\* sub in s
Contains(s, sub) ==
    \E i \in 0..(Len(s) - Len(sub)) : SubSeq(s, i + 1, i + Len(sub)) = sub

\* s.find(sub), 0-based; -1 when absent
Find(s, sub) ==
    IF Contains(s, sub)
    THEN CHOOSE i \in 0..(Len(s) - Len(sub)) :
             /\ SubSeq(s, i + 1, i + Len(sub)) = sub
             /\ \A j \in 0..(i - 1) : SubSeq(s, j + 1, j + Len(sub)) /= sub
    ELSE -1

RECURSIVE RStripChars(_, _)
\* s.rstrip(chars)
RStripChars(s, chars) ==
    IF s /= <<>> /\ s[Len(s)] \in chars
    THEN RStripChars(SubSeq(s, 1, Len(s) - 1), chars)
    ELSE s

RECURSIVE LStripChars(_, _)
\* s.lstrip(chars)
LStripChars(s, chars) ==
    IF s /= <<>> /\ s[1] \in chars
    THEN LStripChars(Tail(s), chars)
    ELSE s

Whitespace == {" ", "\n", "\t"}

\* s.strip()
Strip(s) == LStripChars(RStripChars(s, Whitespace), Whitespace)

RECURSIVE Split(_, _)
\* s.split(sep): the list of the pieces between the occurrences of sep
Split(s, sep) ==
    LET i == Find(s, sep)
    IN  IF i = -1
        THEN <<s>>
        ELSE <<SubSeq(s, 1, i)>> \o Split(SubSeq(s, i + Len(sep) + 1, Len(s)), sep)

\* s.split(sep, 1): at most one split
Split1(s, sep) ==
    LET i == Find(s, sep)
    IN  IF i = -1
        THEN <<s>>
        ELSE <<SubSeq(s, 1, i), SubSeq(s, i + Len(sep) + 1, Len(s))>>

RECURSIVE Join(_, _)
\* sep.join(parts)
Join(parts, sep) ==
    IF parts = <<>> THEN <<>>
    ELSE IF Len(parts) = 1 THEN parts[1]
    ELSE parts[1] \o sep \o Join(Tail(parts), sep)

(***************************************************************************)
(* The configuration record: a dict from a subset of the keys to strings.  *)
(***************************************************************************)
Keys == <<"url", "port", "key", "model">>

DefaultModel == <<"g", "p", "t", "-", "3", ".", "5", "-", "t", "u", "r", "b", "o">>

\* config.get(k, d)
ConfigGet(cfg, k, d) == IF k \in DOMAIN cfg THEN cfg[k] ELSE d

\* config.get(k): None when the key is missing
ConfigGetOpt(cfg, k) == IF k \in DOMAIN cfg THEN Just(cfg[k]) ELSE Nothing

EmptyConfig == [k \in {} |-> <<>>]

(***************************************************************************)
(* get_api_url                                                             *)
(***************************************************************************)
\* Variant: the host keeps the port the url already had.
InjectPortKeepOld(url, port) ==
    LET parts    == Split1(url, <<":", "/", "/">>)
        protocol == parts[1]
        rest     == parts[2]
        host     == Split(rest, <<"/">>)[1]
        path     == IF Contains(rest, <<"/">>)
                    THEN <<"/">> \o Join(Tail(Split(rest, <<"/">>)), <<"/">>)
                    ELSE <<>>
    IN  protocol \o <<":", "/", "/">> \o host \o <<":">> \o port \o path

\* The rebuilt url of the port-injection branch.
InjectPort(url, port) ==
    LET parts    == Split1(url, <<":", "/", "/">>)
        protocol == parts[1]
        rest     == parts[2]
        host     == Split(Split(rest, <<"/">>)[1], <<":">>)[1]
        path     == IF Contains(rest, <<"/">>)
                    THEN <<"/">> \o Join(Tail(Split(rest, <<"/">>)), <<"/">>)
                    ELSE <<>>
    IN  protocol \o <<":", "/", "/">> \o host \o <<":">> \o port \o path

\* Variant: the url is not searched for the port.
PortMissingAny(url, port) == port /= <<>>

\* The condition of the port-injection branch: port given and not in the url.
PortMissing(url, port) == port /= <<>> /\ ~Contains(url, <<":">> \o port)

\* Variant: the trailing slashes of the url are kept.
get_api_url_NoStrip(cfg) ==
    LET url  == ConfigGet(cfg, "url", <<>>)
        port == ConfigGet(cfg, "port", <<>>)
    IN  IF url = <<>> THEN Nothing
        ELSE IF PortMissing(url, port) /\ Contains(url, <<":", "/", "/">>)
             THEN Just(InjectPort(url, port))
             ELSE Just(url)

get_api_url(cfg) ==
    LET url  == RStripChars(ConfigGet(cfg, "url", <<>>), {"/"})
        port == ConfigGet(cfg, "port", <<>>)
    IN  IF url = <<>> THEN Nothing
        ELSE IF PortMissing(url, port) /\ Contains(url, <<":", "/", "/">>)
             THEN Just(InjectPort(url, port))
             ELSE Just(url)

(***************************************************************************)
(* json.dump(config, f, indent=2) and json.load(f), for a dict of strings. *)
(***************************************************************************)
\* The characters outside ASCII known to the model, with their \uXXXX digits.
NonAscii == ("U+00E9" :> <<"0", "0", "e", "9">>)

\* Variant: the quote and the backslash are written as they are.
EncodeCharPlain(c) ==
    IF c = "\n" THEN <<"\\", "n">>
    ELSE IF c = "\t" THEN <<"\\", "t">>
    ELSE IF c \in DOMAIN NonAscii THEN <<"\\", "u">> \o NonAscii[c]
    ELSE <<c>>

\* One character of a string, as json.dump writes it (ensure_ascii=True).
EncodeChar(c) ==
    IF c = "\"" THEN <<"\\", "\"">>
    ELSE IF c = "\\" THEN <<"\\", "\\">>
    ELSE IF c = "\n" THEN <<"\\", "n">>
    ELSE IF c = "\t" THEN <<"\\", "t">>
    ELSE IF c \in DOMAIN NonAscii THEN <<"\\", "u">> \o NonAscii[c]
    ELSE <<c>>

RECURSIVE EncodeChars(_)
EncodeChars(s) ==
    IF s = <<>> THEN <<>> ELSE EncodeChar(s[1]) \o EncodeChars(Tail(s))

\* A JSON string literal.
EncodeString(s) == <<"\"">> \o EncodeChars(s) \o <<"\"">>

\* The characters of a key of the record.
KeyChars(k) ==
    IF k = "url" THEN <<"u", "r", "l">>
    ELSE IF k = "port" THEN <<"p", "o", "r", "t">>
    ELSE IF k = "key" THEN <<"k", "e", "y">>
    ELSE <<"m", "o", "d", "e", "l">>

\* The key named by a sequence of characters; "" when it is no key.
KeyOf(chars) ==
    IF \E i \in 1..Len(Keys) : KeyChars(Keys[i]) = chars
    THEN Keys[CHOOSE i \in 1..Len(Keys) : KeyChars(Keys[i]) = chars]
    ELSE ""

RECURSIVE EncodeMembers(_, _)
\* The members of cfg from the i-th key on, one per line.
EncodeMembers(cfg, i) ==
    IF i > Len(Keys) THEN <<>>
    ELSE IF Keys[i] \notin DOMAIN cfg THEN EncodeMembers(cfg, i + 1)
    ELSE LET member == <<EncodeString(KeyChars(Keys[i])) \o <<":", " ">>
                           \o EncodeString(cfg[Keys[i]])>>
         IN  member \o EncodeMembers(cfg, i + 1)

JsonDump(cfg) ==
    IF DOMAIN cfg = {} THEN <<"{", "}">>
    ELSE <<"{", "\n", " ", " ">>
           \o Join(EncodeMembers(cfg, 1), <<",", "\n", " ", " ">>)
           \o <<"\n", "}">>

ParseFail == [ok |-> FALSE, val |-> <<>>, next |-> 0]

JsonWhitespace == {" ", "\n", "\t", "\r"}

RECURSIVE SkipWs(_, _)
\* The first position from i on that holds no whitespace.
SkipWs(t, i) ==
    IF i <= Len(t) /\ t[i] \in JsonWhitespace THEN SkipWs(t, i + 1) ELSE i

\* The character written as \uXXXX with the given digits, if the model has it.
DecodeUnicode(digits) ==
    IF \E c \in DOMAIN NonAscii : NonAscii[c] = digits
    THEN Just(<<CHOOSE c \in DOMAIN NonAscii : NonAscii[c] = digits>>)
    ELSE Nothing

RECURSIVE ScanString(_, _, _)
\* The body of a string literal from position i, up to the closing quote.
ScanString(t, i, acc) ==
    IF i > Len(t) THEN ParseFail
    ELSE IF t[i] = "\"" THEN [ok |-> TRUE, val |-> acc, next |-> i + 1]
    ELSE IF t[i] \in {"\n", "\t", "\r"} THEN ParseFail
    ELSE IF t[i] = "\\"
         THEN IF i + 1 > Len(t) THEN ParseFail
              ELSE IF t[i + 1] \in {"\"", "\\", "/"}
                   THEN ScanString(t, i + 2, Append(acc, t[i + 1]))
              ELSE IF t[i + 1] = "n" THEN ScanString(t, i + 2, Append(acc, "\n"))
              ELSE IF t[i + 1] = "t" THEN ScanString(t, i + 2, Append(acc, "\t"))
              ELSE IF t[i + 1] = "u" /\ i + 5 <= Len(t)
                   THEN LET c == DecodeUnicode(SubSeq(t, i + 2, i + 5))
                        IN  IF c.kind = "str"
                            THEN ScanString(t, i + 6, acc \o c.val)
                            ELSE ParseFail
              ELSE ParseFail
    ELSE ScanString(t, i + 1, Append(acc, t[i]))

\* A string literal at position i.
ParseString(t, i) ==
    IF i <= Len(t) /\ t[i] = "\"" THEN ScanString(t, i + 1, <<>>) ELSE ParseFail

RECURSIVE ParseMembers(_, _, _)
\* The members of an object from position i, up to the closing brace.
ParseMembers(t, i, acc) ==
    LET k  == ParseString(t, i)
        c  == SkipWs(t, k.next)
        v  == ParseString(t, SkipWs(t, c + 1))
        e  == SkipWs(t, v.next)
        kn == KeyOf(k.val)
        a2 == IF kn = "" THEN acc
              ELSE [x \in DOMAIN acc \cup {kn} |-> IF x = kn THEN v.val ELSE acc[x]]
    IN  IF ~k.ok THEN ParseFail
        ELSE IF c > Len(t) \/ t[c] /= ":" THEN ParseFail
        ELSE IF ~v.ok THEN ParseFail
        ELSE IF e > Len(t) THEN ParseFail
        ELSE IF t[e] = "}" THEN [ok |-> TRUE, val |-> a2, next |-> e + 1]
        ELSE IF t[e] = "," THEN ParseMembers(t, SkipWs(t, e + 1), a2)
        ELSE ParseFail

\* json.load of a text: an object of strings, or a failure (an exception).
JsonLoad(t) ==
    LET i == SkipWs(t, 1)
        j == SkipWs(t, i + 1)
        r == IF i > Len(t) \/ t[i] /= "{" THEN ParseFail
             ELSE IF j <= Len(t) /\ t[j] = "}"
                  THEN [ok |-> TRUE, val |-> EmptyConfig, next |-> j + 1]
                  ELSE ParseMembers(t, j, EmptyConfig)
    IN  IF r.ok /\ SkipWs(t, r.next) > Len(t) THEN r ELSE ParseFail

(***************************************************************************)
(* State.                                                                  *)
(***************************************************************************)
VARIABLES
    pc,         \* position of the invocation: start, main, setup, generate, done
    argv,       \* sys.argv[1:]
    config,     \* ChngApp.config
    cfgFile,    \* the text of ~/.apikey, or Nothing when it does not exist
    fs,         \* the other files: path -> [readable, data]
    client,     \* the last result of get_client
    apiUrl,     \* the last result of get_api_url
    requests,   \* the completion requests issued, in order
    response,   \* what the API answered to the request of generate_changelog
    changelog,  \* the result of generate_changelog
    connected,  \* the result of test_connection
    console,    \* the messages printed
    exitCode,   \* the exit status of the process, -1 while it runs
    trace       \* the positions the invocation went through

vars == <<pc, argv, config, cfgFile, fs, client, apiUrl, requests, response,
          changelog, connected, console, exitCode, trace>>

(***************************************************************************)
(* load_config and save_config                                             *)
(***************************************************************************)
\* Variant: no except clause, the exception of json.load reaches the caller.
load_config_NoExcept(file) ==
    IF file.kind = "None" THEN [raised |-> FALSE, config |-> EmptyConfig]
    ELSE LET parsed(r) == IF r.ok THEN [raised |-> FALSE, config |-> r.val]
                          ELSE [raised |-> TRUE, config |-> EmptyConfig]
         IN  parsed(JsonLoad(file.val))

\* load_config: [raised, config]. The record of the file; {} when it is absent
\* or json.load raises, the bare except catching every exception.
load_config(file) ==
    IF file.kind = "None" THEN [raised |-> FALSE, config |-> EmptyConfig]
    ELSE LET parsed(r) == IF r.ok THEN [raised |-> FALSE, config |-> r.val]
                          ELSE [raised |-> FALSE, config |-> EmptyConfig]
         IN  parsed(JsonLoad(file.val))

\* The outcomes of writing a file: written, open() raised, or the write raised
\* after open() truncated the file.
WriteOutcomes == {"ok", "open", "write"}

\* save_config: the configuration file after the call.
save_config(cfg, file, outcome) ==
    IF outcome = "ok" THEN Just(JsonDump(cfg))
    ELSE IF outcome = "open" THEN file
    ELSE Just(<<>>)

\* What save_config prints.
save_config_msgs(outcome) ==
    IF outcome = "ok" THEN <<>> ELSE <<"Error saving config">>

(***************************************************************************)
(* get_client, test_connection, generate_changelog                         *)
(***************************************************************************)
NoClient == [kind |-> "None", base_url |-> <<>>, api_key |-> <<>>]

Dummy == <<"d", "u", "m", "m", "y">>

get_client(cfg) ==
    LET api_key == ConfigGet(cfg, "key", <<>>)
        build(api_url) ==
            IF ~Truthy(api_url) THEN NoClient
            ELSE [kind |-> "client", base_url |-> api_url.val,
                  api_key |-> IF api_key = <<>> THEN Dummy ELSE api_key]
    IN  build(get_api_url(cfg))

get_client_msgs(cfg) ==
    IF get_client(cfg).kind = "None" THEN <<"Error: No API URL configured">> ELSE <<>>

\* client.chat.completions.create(...)
Request(cl, model, content, max_tokens) ==
    [base_url |-> cl.base_url, api_key |-> cl.api_key, model |-> model,
     content |-> content, max_tokens |-> max_tokens]

\* The prompt of generate_changelog: the fixed template around the diff.
Prompt(diff_content) == [template |-> "changelog", diff |-> diff_content]

TestPrompt == [template |-> "test", diff |-> <<>>]

\* test_connection: [result, requests]
test_connection(cfg, resp) ==
    LET create(cl) ==
            IF cl.kind = "None"
            THEN [result |-> FALSE, requests |-> <<>>]
            ELSE [result |-> ~resp.raises,
                  requests |-> <<Request(cl, ConfigGet(cfg, "model", DefaultModel),
                                         TestPrompt, 1)>>]
    IN  create(get_client(cfg))

\* Variant: the content is returned without strip().
FirstChoiceRaw(resp) ==
    IF resp.choices = <<>> THEN Nothing
    ELSE IF resp.choices[1].kind = "None" THEN Nothing
    ELSE Just(resp.choices[1].val)

\* response.choices[0].message.content.strip(), None when the expression raises
FirstChoice(resp) ==
    IF resp.choices = <<>> THEN Nothing
    ELSE IF resp.choices[1].kind = "None" THEN Nothing
    ELSE Just(Strip(resp.choices[1].val))

\* No request was answered.
NoResponse == [answered |-> FALSE, raises |-> FALSE, choices |-> <<>>]

\* generate_changelog: [result, requests, response, msgs]
generate_changelog(cfg, diff_content, resp) ==
    LET create(cl) ==
            IF cl.kind = "None"
            THEN [result |-> Nothing, requests |-> <<>>, response |-> NoResponse,
                  msgs |-> <<"Error: No API URL configured">>]
            ELSE [result |-> IF resp.raises THEN Nothing ELSE FirstChoice(resp),
                  requests |-> <<Request(cl, ConfigGet(cfg, "model", DefaultModel),
                                         Prompt(diff_content), 1000)>>,
                  response |-> resp,
                  msgs |-> IF resp.raises \/ FirstChoice(resp).kind = "None"
                           THEN <<"Error">> ELSE <<>>]
    IN  create(get_client(cfg))

(***************************************************************************)
(* process_file                                                            *)
(***************************************************************************)
\* The last component of a path.
PathName(p) == LET parts == Split(p, <<"/">>) IN parts[Len(parts)]

\* Path(p).parent; <<>> stands for the current directory.
PathParent(p) ==
    LET parts == Split(p, <<"/">>)
    IN  Join(SubSeq(parts, 1, Len(parts) - 1), <<"/">>)

\* The position of the last "." of name, 0 when there is none.
LastDot(name) ==
    IF \E i \in 1..Len(name) : name[i] = "."
    THEN CHOOSE i \in 1..Len(name) :
             name[i] = "." /\ \A j \in (i + 1)..Len(name) : name[j] /= "."
    ELSE 0

\* Path(p).stem: the name without its last suffix.
PathStem(p) ==
    LET name == PathName(p)
        i    == LastDot(name)
    IN  IF 1 < i /\ i < Len(name) THEN SubSeq(name, 1, i - 1) ELSE name

\* Path(filepath).parent / f"changelog-{Path(filepath).stem}.md"
OutputFile(filepath) ==
    LET name == <<"c", "h", "a", "n", "g", "e", "l", "o", "g", "-">>
                    \o PathStem(filepath) \o <<".", "m", "d">>
    IN  IF PathParent(filepath) = <<>> THEN name
        ELSE PathParent(filepath) \o <<"/">> \o name

Header == <<"#", " ", "C", "h", "a", "n", "g", "e", "l", "o", "g", "\n", "\n">>

\* str(x) of an optional string, as an f-string formats it
Str(x) == IF x.kind = "None" THEN <<"N", "o", "n", "e">> ELSE x.val

\* Variant: the text read is not stripped.
ReadDiffRaw(files, filepath) ==
    IF filepath \notin DOMAIN files THEN [status |-> "notfound", content |-> <<>>]
    ELSE IF ~files[filepath].readable THEN [status |-> "error", content |-> <<>>]
    ELSE [status |-> "ok", content |-> files[filepath].data]

\* open(filepath).read().strip(): [status, content]
ReadDiff(files, filepath) ==
    IF filepath \notin DOMAIN files THEN [status |-> "notfound", content |-> <<>>]
    ELSE IF ~files[filepath].readable THEN [status |-> "error", content |-> <<>>]
    ELSE [status |-> "ok", content |-> Strip(files[filepath].data)]

\* Variant: the changelog is saved whatever generate_changelog returned.
ShouldSaveAlways(result) == TRUE

\* if changelog: the changelog is saved
ShouldSave(result) == Truthy(result)

\* The files after the write of the changelog.
WriteChangelog(files, filepath, result, outcome) ==
    LET out  == OutputFile(filepath)
        old  == IF out \in DOMAIN files THEN files[out].readable ELSE TRUE
        with(d) == [p \in DOMAIN files \cup {out} |->
                       IF p = out THEN [readable |-> old, data |-> d] ELSE files[p]]
    IN  IF outcome = "ok" THEN with(Header \o Str(result))
        ELSE IF outcome = "open" THEN files
        ELSE with(<<>>)

\* process_file: [fs, result, requests, response, msgs]
process_file(filepath, cfg, files, resp, outcome) ==
    LET stop(msg) == [fs |-> files, result |-> Nothing, requests |-> <<>>,
                      response |-> NoResponse, msgs |-> <<msg>>]
        save(gen) ==
            [fs |-> IF ShouldSave(gen.result)
                    THEN WriteChangelog(files, filepath, gen.result, outcome)
                    ELSE files,
             result |-> gen.result,
             requests |-> gen.requests,
             response |-> gen.response,
             msgs |-> <<"Processing">> \o gen.msgs \o
                      (IF ~ShouldSave(gen.result) THEN <<>>
                       ELSE IF outcome = "ok"
                            THEN <<"Generated Changelog", "Saved">>
                            ELSE <<"Generated Changelog", "Error saving changelog">>)]
        read(rd) ==
            IF rd.status = "notfound" THEN stop("Error: File not found")
            ELSE IF rd.status = "error" THEN stop("Error reading file")
            ELSE IF rd.content = <<>> THEN stop("Error: File is empty")
            ELSE save(generate_changelog(cfg, rd.content, resp))
    IN  read(ReadDiff(files, filepath))

(***************************************************************************)
(* setup                                                                   *)
(***************************************************************************)
\* Prompt.ask(..., default=d): the text typed, or the default when none is.
Ask(typed, d) == IF typed = <<>> THEN d ELSE typed

\* The record setup builds from the answers to its four prompts.
SetupConfig(cfg, ans) ==
    [k \in {"url", "port", "key", "model"} |->
        IF k = "model" THEN Ask(ans[k], ConfigGet(cfg, k, DefaultModel))
        ELSE Ask(ans[k], ConfigGet(cfg, k, <<>>))]

SetupWarnings(cfg) ==
    IF cfg["url"] = <<>> \/ cfg["key"] = <<>> \/ cfg["model"] = <<>>
    THEN <<"Warning">> ELSE <<>>

(***************************************************************************)
(* The inputs of the model.                                                *)
(***************************************************************************)
SetupFlag == <<"-", "-", "s", "e", "t", "u", "p">>

DiffPaths == {<<"f", ".", "d">>, <<"d", "/", "f">>}

Argvs == {<<>>, <<SetupFlag>>} \cup {<<p>> : p \in DiffPaths}

DiffTexts == SeqsUpTo({" ", "x"}, MaxDiffLen)

FlowValues(k) ==
    IF k = "url" THEN {<<>>, <<"/">>, <<"h", ":", "/", "/", "h">>}
    ELSE IF k = "port" THEN {<<"8">>}
    ELSE IF k = "key" THEN {<<"k">>}
    ELSE {<<"m">>}

\* The records a configuration file may hold: any subset of the four keys.
FlowConfigs ==
    UNION {{c \in [D -> UNION {FlowValues(k) : k \in D}] :
                \A k \in D : c[k] \in FlowValues(k)} :
           D \in SUBSET {"url", "port", "key", "model"}}

\* The states of ~/.apikey: absent, not JSON, or the text of a record.
CfgFiles == {Nothing, Just(<<"{">>)} \cup {Just(JsonDump(c)) : c \in FlowConfigs}

\* The answers typed at the prompts of setup.
FlowAnswers ==
    {[url |-> u, port |-> p, key |-> <<>>, model |-> <<>>] :
        u \in {<<>>, <<"h", ":", "/", "/", "h">>}, p \in {<<>>, <<"8">>}}

\* What the API may answer to the one-token request of test_connection.
TestResponses ==
    {[answered |-> TRUE, raises |-> TRUE, choices |-> <<>>],
     [answered |-> TRUE, raises |-> FALSE, choices |-> <<Just(<<"x">>)>>]}

\* What the API may answer: an error, or a response with its choices.
Responses ==
    {[answered |-> TRUE, raises |-> TRUE, choices |-> <<>>]}
    \cup {[answered |-> TRUE, raises |-> FALSE, choices |-> c] :
            c \in {<<>>, <<Nothing>>}
                  \cup {<<Just(t)>> : t \in SeqsUpTo({" ", "x"}, MaxRespLen)}}

\* The files at the start: the diff file and the changelog file beside it.
InitialFiles ==
    {[p \in S |-> IF p \in DiffPaths THEN d ELSE [readable |-> TRUE, data |-> <<"o">>]] :
        S \in UNION {{ {}, {q}, {OutputFile(q)}, {q, OutputFile(q)} } : q \in DiffPaths},
        d \in {[readable |-> FALSE, data |-> <<>>]}
              \cup {[readable |-> TRUE, data |-> t] : t \in DiffTexts}}

(***************************************************************************)
(* The invocation.                                                         *)
(***************************************************************************)
Init ==
    /\ pc = "start"
    /\ argv \in Argvs
    /\ config = EmptyConfig
    /\ cfgFile \in CfgFiles
    /\ fs \in InitialFiles
    /\ client = NoClient
    /\ apiUrl = Nothing
    /\ requests = <<>>
    /\ response = NoResponse
    /\ changelog = Nothing
    /\ connected = FALSE
    /\ console = <<>>
    /\ exitCode = -1
    /\ trace = <<"start">>

\* ChngApp.__init__
\* An exception load_config let through would end the process with status 1.
Construct ==
    /\ pc = "start"
    /\ \E r \in {load_config(cfgFile)} :
         IF r.raised
         THEN /\ config' = config
              /\ console' = Append(console, "Traceback")
              /\ exitCode' = 1
              /\ pc' = "done"
         ELSE /\ config' = r.config
              /\ console' = console
              /\ exitCode' = exitCode
              /\ pc' = "main"
    /\ trace' = Append(trace, pc')
    /\ UNCHANGED <<argv, cfgFile, fs, client, apiUrl, requests, response,
                   changelog, connected>>

\* Variant: setup runs on --setup only.
SetupNeededFlagOnly(args, cfg) == args[1] = SetupFlag

\* main: setup runs on --setup, and when no url is configured.
SetupNeeded(args, cfg) ==
    args[1] = SetupFlag \/ ~Truthy(ConfigGetOpt(cfg, "url"))

\* main, up to the call of setup or process_file
Main ==
    /\ pc = "main"
    /\ IF Len(argv) < 1
       THEN /\ console' = Append(console, "Usage")
            /\ exitCode' = 1
            /\ pc' = "done"
       ELSE IF SetupNeeded(argv, config)
       THEN /\ console' = IF argv[1] = SetupFlag THEN console
                          ELSE Append(console, "No API configuration found")
            /\ exitCode' = exitCode
            /\ pc' = "setup"
       ELSE /\ console' = console
            /\ exitCode' = exitCode
            /\ pc' = "generate"
    /\ trace' = Append(trace, pc')
    /\ UNCHANGED <<argv, config, cfgFile, fs, client, apiUrl, requests,
                   response, changelog, connected>>

\* setup, with the answers drawn from Answers, and the return of main
SetupWith(Answers) ==
    /\ pc = "setup"
    /\ \E ans \in Answers, outcome \in WriteOutcomes, resp \in TestResponses :
         \E cfg \in {SetupConfig(config, ans)} :
         \E tc \in {test_connection(cfg, resp)} :
             /\ config' = cfg
             /\ cfgFile' = save_config(cfg, cfgFile, outcome)
             /\ apiUrl' = get_api_url(cfg)
             /\ client' = get_client(cfg)
             /\ requests' = requests \o tc.requests
             /\ connected' = tc.result
             /\ console' = console \o SetupWarnings(cfg) \o save_config_msgs(outcome)
                             \o <<"Configuration saved">> \o get_client_msgs(cfg)
                             \o <<IF tc.result THEN "Connection successful"
                                  ELSE "Connection failed">>
                             \o (IF argv[1] = SetupFlag THEN <<>>
                                 ELSE <<"Now you can run">>)
    /\ pc' = "done"
    /\ exitCode' = 0
    /\ trace' = Append(trace, "done")
    /\ UNCHANGED <<argv, fs, changelog, response>>

Setup == SetupWith(FlowAnswers)

\* process_file(sys.argv[1]) and the return of main
ProcessFile ==
    /\ pc = "generate"
    /\ \E resp \in Responses, outcome \in WriteOutcomes :
         \E r \in {process_file(argv[1], config, fs, resp, outcome)} :
             /\ fs' = r.fs
             /\ changelog' = r.result
             /\ requests' = requests \o r.requests
             /\ response' = r.response
             /\ console' = console \o r.msgs
             /\ apiUrl' = IF r.msgs[1] = "Processing" THEN get_api_url(config) ELSE apiUrl
             /\ client' = IF r.msgs[1] = "Processing" THEN get_client(config) ELSE client
    /\ pc' = "done"
    /\ exitCode' = 0
    /\ trace' = Append(trace, "done")
    /\ UNCHANGED <<argv, config, cfgFile, connected>>

Next == Construct \/ Main \/ Setup \/ ProcessFile

Spec == Init /\ [][Next]_vars

(***************************************************************************)
(* Endpoint resolution on its own: get_client for every url and port.      *)
(***************************************************************************)
UrlChars == {"h", ":", "/", "8"}

PortChars == {"8", ":"}

InitUrl ==
    /\ pc = "resolve"
    /\ argv = <<>>
    /\ config \in {[url |-> u, port |-> p] :
                      u \in SeqsUpTo(UrlChars, MaxUrlLen),
                      p \in SeqsUpTo(PortChars, MaxPortLen)}
    /\ cfgFile = Nothing
    /\ fs = [p \in {} |-> <<>>]
    /\ client = NoClient
    /\ apiUrl = Nothing
    /\ requests = <<>>
    /\ response = NoResponse
    /\ changelog = Nothing
    /\ connected = FALSE
    /\ console = <<>>
    /\ exitCode = -1
    /\ trace = <<"resolve">>

\* get_client, which calls get_api_url
GetClient ==
    /\ pc = "resolve"
    /\ apiUrl' = get_api_url(config)
    /\ client' = get_client(config)
    /\ console' = console \o get_client_msgs(config)
    /\ pc' = "resolved"
    /\ trace' = Append(trace, "resolved")
    /\ UNCHANGED <<argv, config, cfgFile, fs, requests, response, changelog,
                   connected, exitCode>>

NextUrl == GetClient

SpecUrl == InitUrl /\ [][NextUrl]_vars

(***************************************************************************)
(* The configuration file across invocations: a run of setup, then the     *)
(* start of the next invocation, which loads what setup saved.             *)
(***************************************************************************)
JsonChars == {"a", "/", "\"", "\\", "U+00E9"}

\* The answers typed at the four prompts: MaxAnswerLen characters in all.
RichAnswers ==
    UNION {{[url |-> u, port |-> p, key |-> k, model |-> m] :
                u \in [1..n[1] -> JsonChars], p \in [1..n[2] -> JsonChars],
                k \in [1..n[3] -> JsonChars], m \in [1..n[4] -> JsonChars]} :
           n \in {t \in [1..4 -> 0..MaxAnswerLen] :
                      t[1] + t[2] + t[3] + t[4] <= MaxAnswerLen}}

StoredConfig == [url |-> <<"h", ":", "/", "/", "h">>, port |-> <<"8">>,
                 key |-> <<"k">>, model |-> <<"m">>]

InitCfg ==
    /\ pc = "setup"
    /\ argv = <<SetupFlag>>
    /\ cfgFile \in {Nothing, Just(<<"{">>), Just(JsonDump(StoredConfig))}
    /\ config = load_config(cfgFile).config
    /\ fs = [p \in {} |-> <<>>]
    /\ client = NoClient
    /\ apiUrl = Nothing
    /\ requests = <<>>
    /\ response = NoResponse
    /\ changelog = Nothing
    /\ connected = FALSE
    /\ console = <<>>
    /\ exitCode = -1
    /\ trace = <<"start", "main", "setup">>

SetupRich == SetupWith(RichAnswers)

\* The process has ended; the next one starts and constructs its ChngApp.
NextInvocation ==
    /\ pc = "done"
    /\ \E r \in {load_config(cfgFile)} :
         /\ config' = r.config
         /\ pc' = IF r.raised THEN "done" ELSE "main"
         /\ exitCode' = IF r.raised THEN 1 ELSE -1
    /\ trace' = <<"start", pc'>>
    /\ client' = NoClient
    /\ apiUrl' = Nothing
    /\ requests' = <<>>
    /\ response' = NoResponse
    /\ changelog' = Nothing
    /\ connected' = FALSE
    /\ console' = <<>>
    /\ UNCHANGED <<argv, cfgFile, fs>>

NextCfg == SetupRich \/ NextInvocation

SpecCfg == InitCfg /\ [][NextCfg]_vars

(***************************************************************************)
(* Properties.                                                             *)
(***************************************************************************)
InConsole(m) == \E i \in 1..Len(console) : console[i] = m

\* The flow main chose: "setup", "generate", or "none" before the choice.
Flow == IF Len(trace) >= 3 THEN trace[3] ELSE "none"

\* The changelog file of each diff path of the model, written out.
ExpectedOut(filepath) ==
    IF filepath = <<"f", ".", "d">>
    THEN <<"c", "h", "a", "n", "g", "e", "l", "o", "g", "-", "f", ".", "m", "d">>
    ELSE <<"d", "/", "c", "h", "a", "n", "g", "e", "l", "o", "g", "-", "f", ".", "m", "d">>

AllWhitespace(t) == \A i \in 1..Len(t) : t[i] \in {" ", "\n", "\t"}

AllSlashes(t) == \A i \in 1..Len(t) : t[i] = "/"

\* The completion request of generate_changelog was issued and answered.
Answered == pc = "done" /\ Flow = "generate" /\ requests /= <<>> /\ ~response.raises

\* The first choice of the response holds text that strip() leaves non-empty.
HasText ==
    /\ response.choices /= <<>>
    /\ response.choices[1].kind = "str"
    /\ ~AllWhitespace(response.choices[1].val)

\* C1: when the completion request of the generation flow raises,
\* generate_changelog returns None and no file is created or overwritten: the
\* changelog file exists after the call iff it did before, with the same content.
C1_ApiErrorKeepsOutput ==
    [][(pc = "generate" /\ requests' /= requests /\ response'.raises) =>
          /\ changelog' = Nothing
          /\ fs' = fs
          /\ (ExpectedOut(argv[1]) \in DOMAIN fs') = (ExpectedOut(argv[1]) \in DOMAIN fs)
          /\ ExpectedOut(argv[1]) \in DOMAIN fs =>
                 fs'[ExpectedOut(argv[1])] = fs[ExpectedOut(argv[1])]]_vars

\* The request raised while a changelog file of an earlier run was there, and the
\* file still holds its old text.
C1_Witness ==
    /\ pc = "done" /\ Flow = "generate" /\ requests /= <<>> /\ response.raises
    /\ ExpectedOut(argv[1]) \in DOMAIN fs
    /\ fs[ExpectedOut(argv[1])].data = <<"o">>

C3_EmptyDiffNoRequest ==
    [][(/\ pc = "generate"
        /\ argv[1] \in DOMAIN fs
        /\ fs[argv[1]].readable
        /\ AllWhitespace(fs[argv[1]].data)) =>
          /\ requests' = <<>>
          /\ fs' = fs
          /\ changelog' = Nothing
          /\ console' = Append(console, "Error: File is empty")]_vars

\* A diff file holding one blank was refused.
C3_Witness ==
    /\ pc = "done" /\ Flow = "generate"
    /\ argv[1] \in DOMAIN fs
    /\ fs[argv[1]].data = <<" ">>
    /\ InConsole("Error: File is empty")
    /\ requests = <<>>

\* C4: the process exits with status 1 when no argument is given, when the diff
\* file cannot be read and when the diff file is empty, and with status 0 after a
\* generation or a setup that succeeded.
C4_ExitCodes ==
    pc = "done" =>
        /\ Len(argv) = 0 => exitCode = 1
        /\ (Flow = "generate" /\ argv[1] \notin DOMAIN fs) => exitCode = 1
        /\ (Flow = "generate" /\ argv[1] \in DOMAIN fs /\ ~fs[argv[1]].readable)
               => exitCode = 1
        /\ (Flow = "generate" /\ argv[1] \in DOMAIN fs /\ fs[argv[1]].readable
              /\ AllWhitespace(fs[argv[1]].data)) => exitCode = 1
        /\ (InConsole("Saved") \/ Flow = "setup") => exitCode = 0

\* C5: an invocation with an argument goes start, main, then exactly one of setup
\* and generate, then done; setup is chosen iff the argument is --setup or the
\* loaded configuration has no non-empty url; and the effects of the generation
\* flow (a file written, a changelog request, a changelog returned) happen in the
\* generate position only, with the url configured and an argument other than
\* --setup.
C5_Flow ==
    /\ [](pc = "done" /\ Len(argv) >= 1 =>
            trace \in {<<"start", "main", "setup", "done">>,
                       <<"start", "main", "generate", "done">>})
    /\ [][(pc = "main" /\ Len(argv) >= 1) =>
            /\ pc' \in {"setup", "generate"}
            /\ pc' = "setup" <=>
                 \/ argv[1] = SetupFlag
                 \/ "url" \notin DOMAIN config
                 \/ config["url"] = <<>>]_vars
    /\ [][(fs' /= fs \/ changelog' /= changelog \/ response' /= response
             \/ (requests' /= requests
                   /\ requests'[Len(requests')].content.template = "changelog")) =>
            /\ pc = "generate"
            /\ argv[1] /= SetupFlag
            /\ "url" \in DOMAIN config
            /\ config["url"] /= <<>>]_vars

\* A diff file was given, no url was configured: setup ran, and nothing else.
C5_Witness ==
    /\ pc = "done"
    /\ trace = <<"start", "main", "setup", "done">>
    /\ argv[1] /= SetupFlag
    /\ InConsole("No API configuration found")
    /\ changelog = Nothing

\* C6: when the url is empty once its trailing slashes are stripped, whatever
\* the port, get_api_url returns None, get_client builds no client, and
\* generate_changelog and test_connection fail without issuing a request.
C6_NoEndpoint ==
    [][(pc \in {"setup", "generate"} /\ AllSlashes(ConfigGet(config', "url", <<>>))) =>
          /\ apiUrl' = Nothing
          /\ client' = NoClient
          /\ requests' = requests
          /\ changelog' = Nothing
          /\ connected' = FALSE]_vars

\* generate_changelog was called with the url "/" and a port, and found no
\* endpoint.
C6_Witness ==
    /\ pc = "done" /\ Flow = "generate"
    /\ config["url"] = <<"/">>
    /\ "port" \in DOMAIN config
    /\ InConsole("Error: No API URL configured")
    /\ requests = <<>>

\* The least element of a non-empty set of integers.
Least(S) == CHOOSE x \in S : \A y \in S : x <= y

\* The url of the configuration without its trailing slashes.
StrippedUrl ==
    LET u == ConfigGet(config, "url", <<>>)
        n == IF \E i \in 1..Len(u) : u[i] /= "/"
             THEN CHOOSE i \in 1..Len(u) :
                      u[i] /= "/" /\ \A j \in (i + 1)..Len(u) : u[j] = "/"
             ELSE 0
    IN  SubSeq(u, 1, n)

\* The positions of u where "://" starts.
SchemeMarks(u) ==
    {i \in 1..(Len(u) - 2) : u[i] = ":" /\ u[i + 1] = "/" /\ u[i + 2] = "/"}

\* u read as scheme://host[:oldport][/path]: the scheme up to the first "://",
\* the host up to the first ":" or "/" after it, the path from the first "/".
UrlParts(u) ==
    LET m == Least(SchemeMarks(u))
        a == m + 3
        h == Least({j \in a..Len(u) : u[j] \in {":", "/"}} \cup {Len(u) + 1})
        k == Least({j \in a..Len(u) : u[j] = "/"} \cup {Len(u) + 1})
    IN  [scheme |-> SubSeq(u, 1, m - 1),
         host |-> SubSeq(u, a, h - 1),
         oldport |-> IF h < k THEN SubSeq(u, h + 1, k - 1) ELSE <<>>,
         hasport |-> h < k,
         path |-> SubSeq(u, k, Len(u))]

\* The port is given and ":" + port occurs nowhere in u.
PortAbsent(u, port) ==
    /\ port /= <<>>
    /\ \A i \in 1..Len(u) :
          ~(/\ u[i] = ":"
            /\ i + Len(port) <= Len(u)
            /\ \A j \in 1..Len(port) : u[i + j] = port[j])

\* C7: for a url scheme://host[:oldport][/path] without trailing slashes and a
\* non-empty port such that ":" + port does not occur in the url, get_api_url
\* returns scheme://host:port followed by the path: scheme and path as they
\* were, the old port dropped, the host ending at the first ":" or "/".
C7_PortInjected ==
    (/\ pc = "resolved"
     /\ SchemeMarks(StrippedUrl) /= {}
     /\ PortAbsent(StrippedUrl, config["port"])) =>
        apiUrl = Just(UrlParts(StrippedUrl).scheme \o <<":", "/", "/">>
                        \o UrlParts(StrippedUrl).host \o <<":">> \o config["port"]
                        \o UrlParts(StrippedUrl).path)

\* A url with a scheme, an old port and a path got the new port in place of
\* the old one.
C7_Witness ==
    /\ pc = "resolved"
    /\ SchemeMarks(StrippedUrl) /= {}
    /\ PortAbsent(StrippedUrl, config["port"])
    /\ UrlParts(StrippedUrl).hasport
    /\ UrlParts(StrippedUrl).path /= <<>>
    /\ apiUrl.val /= StrippedUrl

\* C8: for a non-empty url (trailing slashes stripped), get_api_url returns the
\* url unchanged when the port is empty, when ":" + port occurs in the url, and
\* when the url has no "://".
C8_UrlUnchanged ==
    (/\ pc = "resolved"
     /\ StrippedUrl /= <<>>
     /\ \/ config["port"] = <<>>
        \/ ~PortAbsent(StrippedUrl, config["port"])
        \/ SchemeMarks(StrippedUrl) = {}) =>
        /\ apiUrl = Just(StrippedUrl)
        /\ client.base_url = StrippedUrl

\* A url with "://" that already holds ":" + port came back as it was.
C8_Witness ==
    /\ pc = "resolved"
    /\ SchemeMarks(StrippedUrl) /= {}
    /\ config["port"] /= <<>>
    /\ ~PortAbsent(StrippedUrl, config["port"])
    /\ apiUrl = Just(StrippedUrl)

\* The text of the configuration file of each record of the model.
FileText == [c \in FlowConfigs |-> JsonDump(c)]

\* The record the configuration file holds at the start of the invocation, {}
\* when the file is absent or is not the text of a record.
FileRecord ==
    IF cfgFile.kind = "str" /\ \E c \in FlowConfigs : FileText[c] = cfgFile.val
    THEN CHOOSE c \in FlowConfigs : FileText[c] = cfgFile.val
    ELSE EmptyConfig

\* C9: whether the configuration file is absent, unparseable or holds a record
\* missing any of its fields, load_config does not raise, the process goes on to
\* main with the fields of the file and no others, and a missing field reads as
\* its default: a missing model as gpt-3.5-turbo, a missing key as '' (so that
\* the dummy key is sent), a missing port as '' (so that the url is kept).
C9_LoadDefaults ==
    /\ pc /= "start" => trace[2] = "main"
    /\ pc = "main" => (exitCode = -1 /\ config = FileRecord)
    /\ (pc = "done" /\ Flow = "generate" /\ requests /= <<>>) =>
          /\ requests[1].model = IF "model" \in DOMAIN FileRecord
                                 THEN FileRecord["model"] ELSE DefaultModel
          /\ requests[1].api_key = IF "key" \in DOMAIN FileRecord
                                   THEN FileRecord["key"] ELSE Dummy
          /\ "port" \notin DOMAIN FileRecord =>
                 requests[1].base_url = FileRecord["url"]

\* A file holding the url alone: the request went out with the default model,
\* the dummy key and the url as it was.
C9_Witness ==
    /\ pc = "done" /\ Flow = "generate" /\ requests /= <<>>
    /\ DOMAIN config = {"url"}
    /\ requests[1].model = DefaultModel
    /\ requests[1].api_key = Dummy

====
